---- MODULE Spec2Model ----
(***************************************************************************)
(* Model of notebooks/deploy-llama3.ipynb: the notebook's code cells run   *)
(* top to bottom by one kernel.  Each statement that talks to the platform *)
(* is an action; an exception raised by a statement stops the run (the     *)
(* kernel aborts the cell and "Run All" does not execute later cells).     *)
(*                                                                         *)
(* Text is modelled in two ways: identifiers and URIs are TLA+ strings;    *)
(* text whose characters matter (generated content, formatted numbers) is  *)
(* a sequence of one-character strings.  Seconds read from the benchmark   *)
(* summary are carried as integer micro-units (value * 10^6).              *)
(***************************************************************************)
EXTENDS Integers, Sequences, FiniteSets, TLC

VARIABLES pc, error, raised, ambientRegion, token, sess, role, llm_image, config,
          llm_model, llm, chat, results, data, stdout, endpoint, remoteModel,
          calls, inflight, teardowns

vars == <<pc, error, raised, ambientRegion, token, sess, role, llm_image, config,
          llm_model, llm, chat, results, data, stdout, endpoint, remoteModel,
          calls, inflight, teardowns>>

-----------------------------------------------------------------------------
(* Bounds of the model *)

MaxContentLen == 3
MaxChoices == 2
MaxTtftMicros == 6
MaxTeardowns == 2

-----------------------------------------------------------------------------
(* Values *)

None == [type |-> "NoneType"]
Str(s) == [type |-> "str", v |-> s]
Num(n) == [type |-> "int", v |-> n]

NoError == "NoError"

PLACEHOLDER == "<REPLACE WITH YOUR TOKEN>"

\* Values the user may have put in place of the token literal.
Tokens == {PLACEHOLDER, "hf_secret", ""}

\* Regions the ambient environment may configure.
Regions == {"us-east-1", "eu-west-1"}

PrimaryArn == "arn:aws:iam::111122223333:role/service-role/notebook"
FallbackArn == "arn:aws:iam::111122223333:role/sagemaker_execution_role"

FallbackRoleName == "sagemaker_execution_role"

instance_type == "ml.p4d.24xlarge"
health_check_timeout == 900
initial_instance_count == 1

\* A call issued to a collaborator, with the endpoint state at issue time.
Call(op, arg) == [op |-> op, arg |-> arg, ep |-> endpoint, run |-> teardowns]

\* An exception leaves the statement: it is recorded and the run stops.
Raise(e) ==
    /\ error' = e
    /\ raised' = Append(raised, [at |-> pc, exc |-> e])
    /\ pc' = "aborted"

\* The statement completes without an exception.
NoRaise == UNCHANGED <<error, raised>>

Running(p) == pc = p /\ error = NoError

-----------------------------------------------------------------------------
(* Cell 2: session and execution role *)

\* sess = sagemaker.Session(); sagemaker_session_bucket = sess.default_bucket()
CreateSession ==
    /\ Running("session")
    /\ calls' = Append(calls, Call("Session", "default"))
    /\ \/ /\ sess' = [region |-> ambientRegion, bucket |-> "default"]
          /\ pc' = "role"
          /\ NoRaise
       \/ /\ Raise("SessionError")
          /\ UNCHANGED sess
    /\ UNCHANGED <<ambientRegion, token, role, llm_image, config, llm_model,
                   llm, chat, results, data, stdout, endpoint, remoteModel,
                   inflight, teardowns>>

\* The except clause: the ValueError is caught and the role is looked up by
\* name, iam.get_role(RoleName='sagemaker_execution_role')['Role']['Arn']
FallbackLookup(log, caught) ==
    LET log2 == Append(log, Call("iam.get_role", FallbackRoleName))
        seen == Append(raised, [at |-> pc, exc |-> caught])
    IN  /\ calls' = log2
        /\ \/ /\ role' = Str(FallbackArn)
              /\ pc' = "session2"
              /\ raised' = seen
              /\ UNCHANGED error
           \/ /\ error' = "NoSuchEntity"
              /\ raised' = Append(seen, [at |-> pc, exc |-> "NoSuchEntity"])
              /\ pc' = "aborted"
              /\ UNCHANGED role

\* A primary lookup that falls back on any failure (bare except).
ResolveRoleAnyFailure ==
    /\ Running("role")
    /\ LET log == Append(calls, Call("get_execution_role", "")) IN
       \E outcome \in {"ok", "ValueError", "NoCredentialsError"} :
          IF outcome = "ok"
             THEN /\ calls' = log
                  /\ role' = Str(PrimaryArn)
                  /\ pc' = "session2"
                  /\ NoRaise
             ELSE FallbackLookup(log, outcome)
    /\ UNCHANGED <<ambientRegion, token, sess, llm_image, config, llm_model,
                   llm, chat, results, data, stdout, endpoint, remoteModel,
                   inflight, teardowns>>

\* try: role = sagemaker.get_execution_role()
\* except ValueError: role = iam.get_role(...)['Role']['Arn']
ResolveRole ==
    /\ Running("role")
    /\ LET log == Append(calls, Call("get_execution_role", "")) IN
       \E outcome \in {"ok", "ValueError", "NoCredentialsError"} :
          CASE outcome = "ok" ->
                  /\ calls' = log
                  /\ role' = Str(PrimaryArn)
                  /\ pc' = "session2"
                  /\ NoRaise
            [] outcome = "ValueError" ->
                  FallbackLookup(log, "ValueError")
            [] outcome = "NoCredentialsError" ->
                  /\ calls' = log
                  /\ Raise("NoCredentialsError")
                  /\ UNCHANGED role
    /\ UNCHANGED <<ambientRegion, token, sess, llm_image, config, llm_model,
                   llm, chat, results, data, stdout, endpoint, remoteModel,
                   inflight, teardowns>>

\* sess = sagemaker.Session(default_bucket=...); the two prints
RebindSession ==
    /\ Running("session2")
    /\ calls' = Append(calls, Call("Session", sess.bucket))
    /\ \/ /\ sess' = [region |-> ambientRegion, bucket |-> sess.bucket]
          /\ stdout' = [stdout EXCEPT !.setup =
                           << <<"sagemaker role arn: ", role.v>>,
                              <<"sagemaker session region: ", ambientRegion>> >>]
          /\ pc' = "image"
          /\ NoRaise
       \/ /\ Raise("SessionError")
          /\ UNCHANGED <<sess, stdout>>
    /\ UNCHANGED <<ambientRegion, token, role, llm_image, config, llm_model,
                   llm, chat, results, data, endpoint, remoteModel,
                   inflight, teardowns>>

-----------------------------------------------------------------------------
(* Cell 3: image URI *)

\* The f-string of the image cell, with the region interpolated.
ImageUri(region) ==
    "763104351884.dkr.ecr." \o region
        \o ".amazonaws.com/huggingface-pytorch-tgi-inference:2.1-tgi2.0-gpu-py310-cu121-ubuntu22.04"

\* An image cell that pins the region of the recorded run.
BuildImagePinnedRegion ==
    /\ Running("image")
    /\ llm_image' = Str(ImageUri("us-east-1"))
    /\ stdout' = [stdout EXCEPT !.image =
                     << <<"llm image uri: ", ImageUri("us-east-1")>> >>]
    /\ pc' = "config"
    /\ UNCHANGED <<error, raised, ambientRegion, token, sess, role, config, llm_model,
                   llm, chat, results, data, endpoint, remoteModel, calls,
                   inflight, teardowns>>

\* llm_image = f"763104351884.dkr.ecr.{sess.boto_region_name}...."; print
BuildImage ==
    /\ Running("image")
    /\ llm_image' = Str(ImageUri(sess.region))
    /\ stdout' = [stdout EXCEPT !.image =
                     << <<"llm image uri: ", ImageUri(sess.region)>> >>]
    /\ pc' = "config"
    /\ UNCHANGED <<error, raised, ambientRegion, token, sess, role, config, llm_model,
                   llm, chat, results, data, endpoint, remoteModel, calls,
                   inflight, teardowns>>

-----------------------------------------------------------------------------
(* Cell 4: configuration, token assertion, model object *)

ConfigKeys ==
    {"HF_MODEL_ID", "SM_NUM_GPUS", "MAX_INPUT_LENGTH", "MAX_TOTAL_TOKENS",
     "MAX_BATCH_TOTAL_TOKENS", "MESSAGES_API_ENABLED", "HUGGING_FACE_HUB_TOKEN"}

\* The dict literal, with the token literal as the user left or replaced it.
ConfigLiteral(tok) ==
    [HF_MODEL_ID            |-> Str("meta-llama/Meta-Llama-3-70B-Instruct"),
     SM_NUM_GPUS            |-> Str("8"),
     MAX_INPUT_LENGTH       |-> Str("2048"),
     MAX_TOTAL_TOKENS       |-> Str("4096"),
     MAX_BATCH_TOTAL_TOKENS |-> Str("8192"),
     MESSAGES_API_ENABLED   |-> Str("true"),
     HUGGING_FACE_HUB_TOKEN |-> Str(tok)]

\* A configuration cell that writes the GPU count as a number.
BuildConfigNumericGpus ==
    /\ Running("config")
    /\ config' = [ConfigLiteral(token) EXCEPT !.SM_NUM_GPUS = Num(8)]
    /\ pc' = "assert"
    /\ UNCHANGED <<error, raised, ambientRegion, token, sess, role, llm_image,
                   llm_model, llm, chat, results, data, stdout, endpoint,
                   remoteModel, calls, inflight, teardowns>>

\* config = { ... }
BuildConfig ==
    /\ Running("config")
    /\ config' = ConfigLiteral(token)
    /\ pc' = "assert"
    /\ UNCHANGED <<error, raised, ambientRegion, token, sess, role, llm_image,
                   llm_model, llm, chat, results, data, stdout, endpoint,
                   remoteModel, calls, inflight, teardowns>>

\* A cell without the token check.
AssertTokenSkipped ==
    /\ Running("assert")
    /\ pc' = "model"
    /\ UNCHANGED <<error, raised, ambientRegion, token, sess, role, llm_image, config,
                   llm_model, llm, chat, results, data, stdout, endpoint,
                   remoteModel, calls, inflight, teardowns>>

\* assert config['HUGGING_FACE_HUB_TOKEN'] != "<REPLACE WITH YOUR TOKEN>", ...
AssertToken ==
    /\ Running("assert")
    /\ IF config.HUGGING_FACE_HUB_TOKEN # Str(PLACEHOLDER)
          THEN pc' = "model" /\ NoRaise
          ELSE Raise("AssertionError")
    /\ UNCHANGED <<ambientRegion, token, sess, role, llm_image, config,
                   llm_model, llm, chat, results, data, stdout, endpoint,
                   remoteModel, calls, inflight, teardowns>>

\* llm_model = HuggingFaceModel(role=role, image_uri=llm_image, env=config)
CreateModel ==
    /\ Running("model")
    /\ llm_model' = [type |-> "HuggingFaceModel", role |-> role,
                     image_uri |-> llm_image, env |-> config]
    /\ calls' = Append(calls, Call("HuggingFaceModel", ""))
    /\ pc' = "deploy"
    /\ UNCHANGED <<error, raised, ambientRegion, token, sess, role, llm_image, config,
                   llm, chat, results, data, stdout, endpoint, remoteModel,
                   inflight, teardowns>>

-----------------------------------------------------------------------------
(* Cell 5: deployment *)

DeployRequest ==
    [initial_instance_count |-> initial_instance_count,
     instance_type |-> instance_type,
     container_startup_health_check_timeout |-> health_check_timeout,
     image_uri |-> llm_model.image_uri,
     env |-> llm_model.env]

\* A deploy that returns the handle without waiting for the endpoint.
DeployCallNoWait ==
    /\ Running("deploy")
    /\ calls' = Append(calls, Call("deploy", DeployRequest))
    /\ remoteModel' = "created"
    /\ endpoint' = "deploying"
    /\ llm' = [type |-> "Predictor", endpoint_name |-> "endpoint-1"]
    /\ pc' = "predict"
    /\ UNCHANGED <<error, raised, ambientRegion, token, sess, role, llm_image, config,
                   llm_model, chat, results, data, stdout, inflight, teardowns>>

\* llm = llm_model.deploy(...): the request is submitted and the call blocks
DeployCall ==
    /\ Running("deploy")
    /\ calls' = Append(calls, Call("deploy", DeployRequest))
    /\ remoteModel' = "created"
    /\ endpoint' = "deploying"
    /\ inflight' = inflight \cup {"deploy"}
    /\ pc' = "deploy_wait"
    /\ UNCHANGED <<error, raised, ambientRegion, token, sess, role, llm_image, config,
                   llm_model, llm, chat, results, data, stdout, teardowns>>

\* A deploy whose time-out still hands back a handle and lets the run go on.
DeployReturnHandleOnTimeout ==
    /\ Running("deploy_wait")
    /\ inflight' = inflight \ {"deploy"}
    /\ llm' = [type |-> "Predictor", endpoint_name |-> "endpoint-1"]
    /\ pc' = "predict"
    /\ NoRaise
    /\ \/ endpoint' = "deployed"
       \/ endpoint' = "failed"
    /\ UNCHANGED <<ambientRegion, token, sess, role, llm_image, config,
                   llm_model, chat, results, data, stdout, remoteModel, calls,
                   teardowns>>

\* deploy returns once the endpoint is healthy, or raises on timeout/failure
DeployReturn ==
    /\ Running("deploy_wait")
    /\ inflight' = inflight \ {"deploy"}
    /\ \/ /\ endpoint' = "deployed"
          /\ llm' = [type |-> "Predictor", endpoint_name |-> "endpoint-1"]
          /\ pc' = "predict"
          /\ NoRaise
       \/ /\ endpoint' = "failed"
          /\ Raise("DeployError")
          /\ UNCHANGED llm
    /\ UNCHANGED <<ambientRegion, token, sess, role, llm_image, config,
                   llm_model, chat, results, data, stdout, remoteModel, calls,
                   teardowns>>

-----------------------------------------------------------------------------
(* Cells 6 and 7: request, predict, extraction of the generated text *)

messages ==
    << [role |-> "system", content |-> "You are a helpful assistant."],
       [role |-> "user", content |-> "What is deep learning?"] >>

parameters ==
    [model |-> "meta-llama/Meta-Llama-3-70B-Instruct", top_p |-> "0.6",
     temperature |-> "0.9", max_tokens |-> 512, stop |-> <<"<|eot_id|>">>]

\* {"messages": messages, **parameters}
RequestPayload ==
    [messages |-> messages, model |-> parameters.model,
     top_p |-> parameters.top_p, temperature |-> parameters.temperature,
     max_tokens |-> parameters.max_tokens, stop |-> parameters.stop]

\* Characters str.strip() removes, and the characters payloads are drawn from.
Whitespace == {" ", "\t", "\n", "\r", "\f"}
Alphabet == {" ", "\n", "x"}

RECURSIVE LStrip(_)
LStrip(s) ==
    IF s # <<>> /\ Head(s) \in Whitespace THEN LStrip(Tail(s)) ELSE s

RECURSIVE RStrip(_)
RStrip(s) ==
    IF s # <<>> /\ s[Len(s)] \in Whitespace
       THEN RStrip(SubSeq(s, 1, Len(s) - 1))
       ELSE s

\* A strip that only removes leading whitespace.
StripLeadingOnly(s) == LStrip(s)

\* str.strip()
Strip(s) == RStrip(LStrip(s))

EmptyDict == <<>>

Contents == UNION {[1..n -> Alphabet] : n \in 0..MaxContentLen}

WellFormedChoice(c) == [message |-> [content |-> c]]

\* What the first choice of a response may look like.
FirstChoices ==
    {WellFormedChoice(c) : c \in Contents}
        \cup {[message |-> EmptyDict], [index |-> 0]}

\* What any later choice may look like.
LaterChoices == {WellFormedChoice(<<"x", "x">>)}

ChoiceLists ==
    {<<>>} \cup
    UNION {{<<f>> \o rest : f \in FirstChoices, rest \in [1..n -> LaterChoices]}
             : n \in 0..(MaxChoices - 1)}

\* Response bodies the endpoint may return: an error envelope or choices.
Payloads ==
    {[error |-> "Input validation error"]}
        \cup {[choices |-> cs] : cs \in ChoiceLists}

\* chat = llm.predict({...}): the request is sent and the call blocks
PredictCall ==
    /\ Running("predict")
    /\ calls' = Append(calls, Call("predict", RequestPayload))
    /\ inflight' = inflight \cup {"predict"}
    /\ pc' = "predict_wait"
    /\ UNCHANGED <<error, raised, ambientRegion, token, sess, role, llm_image, config,
                   llm_model, llm, chat, results, data, stdout, endpoint,
                   remoteModel, teardowns>>

\* predict returns the decoded response body, or raises
PredictReturn ==
    /\ Running("predict_wait")
    /\ inflight' = inflight \ {"predict"}
    /\ \/ /\ \E p \in Payloads : chat' = p
          /\ pc' = "extract"
          /\ NoRaise
       \/ /\ Raise("ModelError")
          /\ UNCHANGED chat
    /\ UNCHANGED <<ambientRegion, token, sess, role, llm_image, config,
                   llm_model, llm, results, data, stdout, endpoint,
                   remoteModel, calls, teardowns>>

\* An extraction that tears the endpoint down when the lookup fails.
ExtractWithCleanup ==
    /\ Running("extract")
    /\ IF /\ "choices" \in DOMAIN chat
          /\ Len(chat.choices) > 0
          /\ "message" \in DOMAIN chat.choices[1]
          /\ "content" \in DOMAIN chat.choices[1].message
          THEN /\ stdout' = [stdout EXCEPT !.predict =
                                <<Strip(chat.choices[1].message.content)>>]
               /\ pc' = "benchmark"
               /\ UNCHANGED <<error, raised, endpoint, remoteModel>>
          ELSE /\ Raise("KeyError")
               /\ endpoint' = "deleted"
               /\ remoteModel' = "deleted"
               /\ UNCHANGED stdout
    /\ UNCHANGED <<ambientRegion, token, sess, role, llm_image, config,
                   llm_model, llm, chat, results, data, calls, inflight,
                   teardowns>>

\* An extraction that prints an empty text when the lookup fails.
ExtractWithDefault ==
    /\ Running("extract")
    /\ IF /\ "choices" \in DOMAIN chat
          /\ Len(chat.choices) > 0
          /\ "message" \in DOMAIN chat.choices[1]
          /\ "content" \in DOMAIN chat.choices[1].message
          THEN stdout' = [stdout EXCEPT !.predict =
                             <<Strip(chat.choices[1].message.content)>>]
          ELSE stdout' = [stdout EXCEPT !.predict = << <<>> >>]
    /\ pc' = "benchmark"
    /\ UNCHANGED <<error, raised, ambientRegion, token, sess, role, llm_image,
                   config, llm_model, llm, chat, results, data, endpoint,
                   remoteModel, calls, inflight, teardowns>>

\* print(chat["choices"][0]["message"]["content"].strip())
Extract ==
    /\ Running("extract")
    /\ IF "choices" \notin DOMAIN chat
          THEN Raise("KeyError") /\ UNCHANGED stdout
       ELSE IF Len(chat.choices) = 0
          THEN Raise("IndexError") /\ UNCHANGED stdout
       ELSE IF "message" \notin DOMAIN chat.choices[1]
          THEN Raise("KeyError") /\ UNCHANGED stdout
       ELSE IF "content" \notin DOMAIN chat.choices[1].message
          THEN Raise("KeyError") /\ UNCHANGED stdout
       ELSE /\ stdout' = [stdout EXCEPT !.predict =
                             <<Strip(chat.choices[1].message.content)>>]
            /\ pc' = "benchmark"
            /\ NoRaise
    /\ UNCHANGED <<ambientRegion, token, sess, role, llm_image, config,
                   llm_model, llm, chat, results, data, endpoint, remoteModel,
                   calls, inflight, teardowns>>

-----------------------------------------------------------------------------
(* Cells 9 and 10: external benchmark and its summary *)

\* One unit of a summary field is 10^-6 of the field's unit.
Micro == 1000000

SummaryFields ==
    {"mean_input_tokens", "mean_output_tokens", "results_ttft_s_mean",
     "results_mean_output_throughput_token_per_s",
     "results_inter_token_latency_s_mean"}

\* Mean times-to-first-token the tool may report, in micro-seconds.
TtftValues == (0..MaxTtftMicros) \cup {1301280}

FullSummary(ttft) ==
    [k \in SummaryFields |->
        CASE k = "mean_input_tokens" -> 550
          [] k = "mean_output_tokens" -> 150
          [] k = "results_ttft_s_mean" -> ttft
          [] k = "results_mean_output_throughput_token_per_s" -> 1116250000
          [] k = "results_inter_token_latency_s_mean" -> 10450]

\* Summary files the tool may leave: all fields, or one field missing.
Summaries ==
    {FullSummary(t) : t \in TtftValues}
        \cup {[k \in SummaryFields \ {m} |-> FullSummary(1301280)[k]]
                : m \in SummaryFields}

DigitChar(d) == <<"0", "1", "2", "3", "4", "5", "6", "7", "8", "9">>[d + 1]

RECURSIVE Digits(_)
Digits(n) ==
    IF n < 10 THEN <<DigitChar(n)>>
              ELSE Digits(n \div 10) \o <<DigitChar(n % 10)>>

\* A scaling that drops the digits beyond the second decimal.
HundredthsTruncated(v, mul, tieUp) == v \div (Micro \div (mul * 100))

\* v * mul (v in micro-units) as a count of hundredths, to the nearest; a
\* value halfway between two hundredths goes the way the binary double falls.
Hundredths(v, mul, tieUp) ==
    LET d == Micro \div (mul * 100)
        q == v \div d
        r == v % d
    IN  IF 2 * r < d THEN q
        ELSE IF 2 * r > d THEN q + 1
        ELSE IF tieUp THEN q + 1 ELSE q

\* The format specification .2f applied to a count of hundredths
Fixed2(h) ==
    Digits(h \div 100) \o <<".", DigitChar((h % 100) \div 10), DigitChar(h % 10)>>

\* The lines the summary cell prints before the first missing field stops it.
SummaryLines(d, t1, t2, t3) ==
    LET l1 == << <<"Concurrent requests: 25">> >>
        l2 == << <<"Avg. Input token length: ">> \o Digits(d["mean_input_tokens"]) >>
        l3 == << <<"Avg. Output token length: ">> \o Digits(d["mean_output_tokens"]) >>
        l4 == << <<"Avg. First-Time-To-Token: ">>
                   \o Fixed2(Hundredths(d["results_ttft_s_mean"], 1000, t1))
                   \o <<"ms">> >>
        l5 == << <<"Avg. Thorughput: ">>
                   \o Fixed2(Hundredths(d["results_mean_output_throughput_token_per_s"], 1, t2))
                   \o <<" tokens/sec">> >>
        l6 == << <<"Avg. Latency: ">>
                   \o Fixed2(Hundredths(d["results_inter_token_latency_s_mean"], 1000, t3))
                   \o <<"ms/token">> >>
        has(k) == k \in DOMAIN d
    IN  IF ~has("mean_input_tokens") THEN l1
        ELSE IF ~has("mean_output_tokens") THEN l1 \o l2
        ELSE IF ~has("results_ttft_s_mean") THEN l1 \o l2 \o l3
        ELSE IF ~has("results_mean_output_throughput_token_per_s")
           THEN l1 \o l2 \o l3 \o l4
        ELSE IF ~has("results_inter_token_latency_s_mean")
           THEN l1 \o l2 \o l3 \o l4 \o l5
        ELSE l1 \o l2 \o l3 \o l4 \o l5 \o l6

\* !MESSAGES_API=true python llmperf/token_benchmark_ray.py --model {llm.endpoint_name} ...
BenchmarkStart ==
    /\ Running("benchmark")
    /\ calls' = Append(calls, Call("benchmark", llm.endpoint_name))
    /\ inflight' = inflight \cup {"benchmark"}
    /\ pc' = "benchmark_wait"
    /\ UNCHANGED <<error, raised, ambientRegion, token, sess, role, llm_image, config,
                   llm_model, llm, chat, results, data, stdout, endpoint,
                   remoteModel, teardowns>>

\* The shell command ends; its exit status raises nothing in the kernel.
BenchmarkFinish ==
    /\ Running("benchmark_wait")
    /\ inflight' = inflight \ {"benchmark"}
    /\ \/ results' = {}
       \/ \E f \in Summaries : results' = {f}
    /\ pc' = "parse"
    /\ UNCHANGED <<error, raised, ambientRegion, token, sess, role, llm_image, config,
                   llm_model, llm, chat, data, stdout, endpoint, remoteModel,
                   calls, teardowns>>

\* with open(glob.glob('results/*summary.json')[0]) ...: data = json.load(file)
\* followed by the six prints
ParseResults ==
    /\ Running("parse")
    /\ IF results = {}
          THEN /\ Raise("IndexError")
               /\ UNCHANGED <<data, stdout>>
          ELSE \E f \in results : \E t1, t2, t3 \in BOOLEAN :
                 /\ data' = f
                 /\ stdout' = [stdout EXCEPT !.parse = SummaryLines(f, t1, t2, t3)]
                 /\ IF DOMAIN f = SummaryFields
                       THEN pc' = "delete_model" /\ NoRaise
                       ELSE Raise("KeyError")
    /\ UNCHANGED <<ambientRegion, token, sess, role, llm_image, config,
                   llm_model, llm, chat, results, endpoint, remoteModel,
                   calls, inflight, teardowns>>

-----------------------------------------------------------------------------
(* Cell 11: clean up *)

\* A delete that is skipped when the model is already gone.
DeleteModelGuarded ==
    /\ Running("delete_model")
    /\ teardowns' = teardowns + 1
    /\ IF remoteModel = "deleted"
          THEN /\ pc' = "delete_endpoint"
               /\ UNCHANGED <<calls, remoteModel, error, raised>>
          ELSE /\ calls' = Append(calls, [Call("delete_model", "") EXCEPT !.run = teardowns + 1])
               /\ \/ /\ remoteModel' = "deleted"
                     /\ pc' = "delete_endpoint"
                     /\ NoRaise
                  \/ /\ Raise("ClientError")
                     /\ UNCHANGED remoteModel
    /\ UNCHANGED <<ambientRegion, token, sess, role, llm_image, config,
                   llm_model, llm, chat, results, data, stdout, endpoint,
                   inflight>>

\* A delete whose failure is swallowed so that the cell goes on.
DeleteModelSwallowed ==
    /\ Running("delete_model")
    /\ teardowns' = teardowns + 1
    /\ calls' = Append(calls, [Call("delete_model", "") EXCEPT !.run = teardowns + 1])
    /\ \/ /\ remoteModel' = "deleted"
          /\ pc' = "delete_endpoint"
          /\ NoRaise
       \/ /\ raised' = Append(raised, [at |-> pc, exc |-> "ClientError"])
          /\ pc' = "delete_endpoint"
          /\ UNCHANGED <<error, remoteModel>>
    /\ UNCHANGED <<ambientRegion, token, sess, role, llm_image, config,
                   llm_model, llm, chat, results, data, stdout, endpoint,
                   inflight>>

\* llm.delete_model()
DeleteModel ==
    /\ Running("delete_model")
    /\ teardowns' = teardowns + 1
    /\ calls' = Append(calls, [Call("delete_model", "") EXCEPT !.run = teardowns + 1])
    /\ \/ /\ remoteModel' = "deleted"
          /\ pc' = "delete_endpoint"
          /\ NoRaise
       \/ /\ Raise("ClientError")
          /\ UNCHANGED remoteModel
    /\ UNCHANGED <<ambientRegion, token, sess, role, llm_image, config,
                   llm_model, llm, chat, results, data, stdout, endpoint,
                   inflight>>

\* llm.delete_endpoint()
DeleteEndpoint ==
    /\ Running("delete_endpoint")
    /\ calls' = Append(calls, Call("delete_endpoint", ""))
    /\ \/ /\ endpoint' = "deleted"
          /\ pc' = "done"
          /\ NoRaise
       \/ /\ Raise("ClientError")
          /\ UNCHANGED endpoint
    /\ UNCHANGED <<ambientRegion, token, sess, role, llm_image, config,
                   llm_model, llm, chat, results, data, stdout, remoteModel,
                   inflight, teardowns>>

\* The clean-up cell is executed once more after it has completed.
RerunTeardown ==
    /\ Running("done")
    /\ teardowns < MaxTeardowns
    /\ pc' = "delete_model"
    /\ UNCHANGED <<error, raised, ambientRegion, token, sess, role, llm_image, config,
                   llm_model, llm, chat, results, data, stdout, endpoint,
                   remoteModel, calls, inflight, teardowns>>

-----------------------------------------------------------------------------
(* The run *)

Init ==
    /\ pc = "session"
    /\ error = NoError
    /\ raised = <<>>
    /\ ambientRegion \in Regions
    /\ token \in Tokens
    /\ sess = None
    /\ role = None
    /\ llm_image = None
    /\ config = None
    /\ llm_model = None
    /\ llm = None
    /\ chat = None
    /\ results = {}
    /\ data = None
    /\ stdout = [setup |-> <<>>, image |-> <<>>, predict |-> <<>>, parse |-> <<>>]
    /\ endpoint = "not-deployed"
    /\ remoteModel = "absent"
    /\ calls = <<>>
    /\ inflight = {}
    /\ teardowns = 0

Next ==
    \/ CreateSession
    \/ ResolveRole
    \/ RebindSession
    \/ BuildImage
    \/ BuildConfig
    \/ AssertToken
    \/ CreateModel
    \/ DeployCall
    \/ DeployReturn
    \/ PredictCall
    \/ PredictReturn
    \/ Extract
    \/ BenchmarkStart
    \/ BenchmarkFinish
    \/ ParseResults
    \/ DeleteModel
    \/ DeleteEndpoint
    \/ RerunTeardown

Spec == Init /\ [][Next]_vars

-----------------------------------------------------------------------------
(* Helpers of the properties *)

Issued(op) == \E i \in 1..Len(calls) : calls[i].op = op

CountCalls(op, run) ==
    Cardinality({i \in 1..Len(calls) : calls[i].op = op /\ calls[i].run = run})

\* Every call of op1 comes before every call of op2.
Before(op1, op2) ==
    \A i, j \in 1..Len(calls) :
        (calls[i].op = op1 /\ calls[j].op = op2) => i < j

\* op2 is issued only when op1 has been.
Needs(op2, op1) == Issued(op2) => (Issued(op1) /\ Before(op1, op2))

-----------------------------------------------------------------------------
(* C1 *)

\* C1: while the token of the configuration is the placeholder, the token
\* assertion fails with an AssertionError; the model object is never created
\* and no deploy request is ever issued.
PlaceholderTokenStopsBeforeDeploy ==
    (config # None /\ config.HUGGING_FACE_HUB_TOKEN = Str(PLACEHOLDER)) =>
        /\ llm_model = None
        /\ ~Issued("HuggingFaceModel")
        /\ ~Issued("deploy")
        /\ endpoint = "not-deployed"
        /\ pc \in {"assert", "aborted"}
        /\ (pc = "aborted" => error = "AssertionError")

PlaceholderTokenRejected ==
    /\ config # None
    /\ config.HUGGING_FACE_HUB_TOKEN = Str(PLACEHOLDER)
    /\ error = "AssertionError"
    /\ pc = "aborted"

-----------------------------------------------------------------------------
(* C2 *)

ConfigWellFormed(c) ==
    /\ DOMAIN c = ConfigKeys
    /\ \A k \in DOMAIN c : c[k].type = "str"

\* C2: with a replaced token, the mapping handed to the model object and sent
\* with the deploy request has exactly the seven documented keys, every value
\* is a string, and the mapping is never modified once created.
ConfigSevenStringKeysUnmodified ==
    /\ [](llm_model # None =>
             /\ config.HUGGING_FACE_HUB_TOKEN # Str(PLACEHOLDER)
             /\ ConfigWellFormed(llm_model.env)
             /\ llm_model.env = config
             /\ llm_model.env = ConfigLiteral(token))
    /\ [](\A i \in 1..Len(calls) :
             calls[i].op = "deploy" =>
                 (ConfigWellFormed(calls[i].arg.env) /\ calls[i].arg.env = config))
    /\ [][config # None => config' = config]_vars

ConfigHandedToDeploy ==
    /\ token # PLACEHOLDER
    /\ Issued("deploy")
    /\ llm_model # None
    /\ llm_model.env = config

-----------------------------------------------------------------------------
(* C3 *)

\* r is c without its leading and trailing whitespace, interior untouched.
IsStripOf(r, c) ==
    \E i, j \in 0..Len(c) :
        /\ i + j <= Len(c)
        /\ r = SubSeq(c, i + 1, Len(c) - j)
        /\ \A k \in 1..i : c[k] \in Whitespace
        /\ \A k \in (Len(c) - j + 1)..Len(c) : c[k] \in Whitespace
        /\ (r # <<>> => (r[1] \notin Whitespace /\ r[Len(r)] \notin Whitespace))

ExtractActed == chat # None /\ pc # "extract"

HasChoice == "choices" \in DOMAIN chat /\ Len(chat.choices) >= 1

FirstChoiceHasContent ==
    /\ HasChoice
    /\ "message" \in DOMAIN chat.choices[1]
    /\ "content" \in DOMAIN chat.choices[1].message

\* C3 as stated: for every response with at least one choice the extraction
\* returns the stripped content of the first choice's message.
ExtractReturnsForAnyChoice ==
    (ExtractActed /\ HasChoice) =>
        /\ FirstChoiceHasContent
        /\ Len(stdout.predict) = 1
        /\ IsStripOf(stdout.predict[1], chat.choices[1].message.content)

\* C3 amended: for every response whose first choice has a message with a
\* content string, the extraction returns that content with leading and
\* trailing whitespace removed and the interior unchanged, whatever the later
\* choices are.
ExtractReturnsStrippedFirstContent ==
    (ExtractActed /\ FirstChoiceHasContent) =>
        /\ error = NoError \/ raised[Len(raised)].at # "extract"
        /\ Len(stdout.predict) = 1
        /\ IsStripOf(stdout.predict[1], chat.choices[1].message.content)

ExtractStrippedBothEnds ==
    /\ ExtractActed
    /\ FirstChoiceHasContent
    /\ Len(chat.choices) >= 2
    /\ chat.choices[1].message.content = <<" ", "x", "\n">>
    /\ stdout.predict = << <<"x">> >>

-----------------------------------------------------------------------------
(* C4 *)

\* C4: the image URI is the fixed registry account, the region of the session
\* in use, the fixed repository and the fixed tag; building it never fails,
\* whether or not such an image exists.
ImageUriInterpolatesRegion ==
    /\ [](llm_image # None =>
             /\ sess.region = ambientRegion
             /\ llm_image.type = "str"
             /\ llm_image.v = "763104351884" \o ".dkr.ecr." \o sess.region
                                \o ".amazonaws.com/"
                                \o "huggingface-pytorch-tgi-inference" \o ":"
                                \o "2.1-tgi2.0-gpu-py310-cu121-ubuntu22.04"
             /\ (sess.region = "us-east-1" =>
                    llm_image.v = "763104351884.dkr.ecr.us-east-1.amazonaws.com/huggingface-pytorch-tgi-inference:2.1-tgi2.0-gpu-py310-cu121-ubuntu22.04")
             /\ stdout.image = << <<"llm image uri: ", llm_image.v>> >>)
    /\ [][pc = "image" => (pc' = "config" /\ error' = NoError)]_vars

ImageUriBuiltOutsideUsEast1 ==
    /\ llm_image # None
    /\ sess.region = "eu-west-1"
    /\ llm_image.v = "763104351884.dkr.ecr.eu-west-1.amazonaws.com/huggingface-pytorch-tgi-inference:2.1-tgi2.0-gpu-py310-cu121-ubuntu22.04"

-----------------------------------------------------------------------------
(* C5 *)

DigitChars == {"0", "1", "2", "3", "4", "5", "6", "7", "8", "9"}

DigitValue(c) == CHOOSE d \in 0..9 : DigitChar(d) = c

RECURSIVE DecimalValue(_)
DecimalValue(cs) ==
    IF cs = <<>> THEN 0
    ELSE 10 * DecimalValue(SubSeq(cs, 1, Len(cs) - 1)) + DigitValue(cs[Len(cs)])

TtftLinePrinted == Len(stdout.parse) >= 4

\* C5: the time-to-first-token line is the label, the mean scaled from
\* seconds to milliseconds and rounded to the nearest hundredth, written with
\* exactly two decimals, and "ms"; 1.30128 s prints as 1301.28ms.
TtftLineScaledAndRounded ==
    TtftLinePrinted =>
        LET line == stdout.parse[4]
            n == Len(line)
            v == data["results_ttft_s_mean"]
        IN  /\ n >= 6
            /\ line[1] = "Avg. First-Time-To-Token: "
            /\ line[n] = "ms"
            /\ line[n - 3] = "."
            /\ \A k \in (2..(n - 4)) \cup {n - 2, n - 1} : line[k] \in DigitChars
            /\ (line[2] = "0" => n = 6)
            /\ LET hundredthsOfMs ==
                       100 * DecimalValue(SubSeq(line, 2, n - 4))
                           + DecimalValue(SubSeq(line, n - 2, n - 1))
               IN  \* |printed ms - v micro-seconds / 1000| <= 0.005 ms
                   /\ 10 * hundredthsOfMs - v <= 5
                   /\ v - 10 * hundredthsOfMs <= 5
            /\ (v = 1301280 =>
                   line = <<"Avg. First-Time-To-Token: ",
                            "1", "3", "0", "1", ".", "2", "8", "ms">>)

TtftLineOfRecordedRun ==
    /\ TtftLinePrinted
    /\ data["results_ttft_s_mean"] = 1301280
    /\ stdout.parse[4] = <<"Avg. First-Time-To-Token: ",
                           "1", "3", "0", "1", ".", "2", "8", "ms">>

-----------------------------------------------------------------------------
(* C6 *)

EndpointOps == {"predict", "benchmark", "delete_model", "delete_endpoint"}

\* C6: the steps run in one fixed order with at most one operation in flight:
\* credentials, image URI, model object, deploy, predict, benchmark, deletion;
\* predict, benchmark and the deletes are issued only after deploy has
\* returned the handle, never while the endpoint is not deployed or deploying.
StepsInFixedLinearOrder ==
    /\ Cardinality(inflight) <= 1
    /\ (inflight # {} => pc \in {"deploy_wait", "predict_wait", "benchmark_wait"})
    /\ (role # None => Issued("Session"))
    /\ (llm_image # None => (role # None /\ sess # None))
    /\ (llm_model # None => (llm_image # None /\ config # None))
    /\ (Issued("get_execution_role") => calls[1].op = "Session")
    /\ Before("Session", "HuggingFaceModel")
    /\ Needs("HuggingFaceModel", "get_execution_role")
    /\ Needs("deploy", "HuggingFaceModel")
    /\ Needs("predict", "deploy")
    /\ Needs("benchmark", "predict")
    /\ Needs("delete_model", "benchmark")
    /\ \A i \in 1..Len(calls) :
          calls[i].op = "delete_endpoint" =>
              \E j \in 1..(i - 1) :
                  calls[j].op = "delete_model" /\ calls[j].run = calls[i].run
    /\ \A i \in 1..Len(calls) :
          calls[i].op \in EndpointOps =>
              /\ calls[i].ep \notin {"not-deployed", "deploying"}
              /\ llm # None
    /\ (llm # None => endpoint \notin {"not-deployed", "deploying"})

WholeSequenceRan ==
    /\ pc = "done"
    /\ teardowns = 1
    /\ endpoint = "deleted"
    /\ Issued("predict")
    /\ Issued("benchmark")

-----------------------------------------------------------------------------
(* C7 *)

RaisedAt(p, e) == \E i \in 1..Len(raised) : raised[i] = [at |-> p, exc |-> e]

PrimaryLookupFailed == \E i \in 1..Len(raised) : raised[i].at = "role" /\
                           raised[i].exc \in {"ValueError", "NoCredentialsError"}

\* C7 as stated: whenever the primary execution-role lookup fails, the
\* resolver falls back to the lookup of the role named sagemaker_execution_role.
AnyPrimaryFailureFallsBack ==
    PrimaryLookupFailed =>
        /\ Issued("iam.get_role")
        /\ role = Str(FallbackArn) \/ (role = None /\ error = "NoSuchEntity")

\* C7 amended: when the primary lookup fails with a ValueError the resolver
\* looks up the fixed role name and binds the ARN returned; a failure of that
\* lookup propagates and binds no role.  Any other failure of the primary
\* lookup propagates without the fallback.  When the primary lookup succeeds
\* the fallback is never invoked.
ValueErrorFallsBackOtherFailuresPropagate ==
    /\ RaisedAt("role", "ValueError") =>
          /\ Issued("iam.get_role")
          /\ \A i \in 1..Len(calls) :
                calls[i].op = "iam.get_role" =>
                    (calls[i].arg = "sagemaker_execution_role" /\ i > 1
                        /\ calls[i - 1].op = "get_execution_role")
          /\ \/ role = Str(FallbackArn) /\ ~RaisedAt("role", "NoSuchEntity")
             \/ /\ role = None
                /\ error = "NoSuchEntity"
                /\ pc = "aborted"
    /\ RaisedAt("role", "NoCredentialsError") =>
          /\ ~Issued("iam.get_role")
          /\ role = None
          /\ error = "NoCredentialsError"
          /\ pc = "aborted"
    /\ Issued("iam.get_role") => RaisedAt("role", "ValueError")
    /\ role = Str(PrimaryArn) => (~Issued("iam.get_role") /\ ~PrimaryLookupFailed)
    /\ CountCalls("iam.get_role", 0) <= 1

FallbackBoundRole ==
    /\ RaisedAt("role", "ValueError")
    /\ role = Str(FallbackArn)
    /\ pc = "image"

-----------------------------------------------------------------------------
(* C8 *)

Caught(r) == r.at = "role" /\ r.exc = "ValueError"

UncaughtRaises == {i \in 1..Len(raised) : ~Caught(raised[i])}

\* C8: once a step raises, the run is over: nothing later executes and nothing
\* is retried; a failed delete-model is not followed by delete-endpoint.
FailureAbortsRemainingSteps ==
    /\ [](UncaughtRaises # {} =>
             /\ pc = "aborted"
             /\ Cardinality(UncaughtRaises) = 1
             /\ error = raised[Len(raised)].exc
             /\ (raised[Len(raised)].at = "delete_model" =>
                    calls[Len(calls)].op = "delete_model"))
    /\ [](\A op \in {"get_execution_role", "iam.get_role", "HuggingFaceModel",
                     "deploy", "predict", "benchmark"} :
             CountCalls(op, 0) <= 1)
    /\ [](\A k \in 1..teardowns :
             CountCalls("delete_model", k) <= 1 /\ CountCalls("delete_endpoint", k) <= 1)
    /\ [][pc = "aborted" => UNCHANGED vars]_vars

DeleteModelFailedFirstTeardown ==
    /\ pc = "aborted"
    /\ teardowns = 1
    /\ raised[Len(raised)] = [at |-> "delete_model", exc |-> "ClientError"]
    /\ ~Issued("delete_endpoint")
    /\ endpoint = "deployed"

-----------------------------------------------------------------------------
(* C9 *)

FailedAfterDeploy ==
    /\ pc = "aborted"
    /\ llm # None
    /\ raised[Len(raised)].at \in {"predict_wait", "extract", "parse"}

\* C9: no error path runs the teardown: a run in which deploy succeeded and
\* predict, the extraction or the summary lookup then failed ends with the
\* endpoint still deployed, and no delete call is ever issued.
FailureLeavesEndpointDeployed ==
    /\ [](FailedAfterDeploy =>
             /\ endpoint = "deployed"
             /\ remoteModel = "created"
             /\ ~Issued("delete_model")
             /\ ~Issued("delete_endpoint"))
    /\ [][FailedAfterDeploy => (endpoint' = "deployed" /\ calls' = calls)]_vars

ExtractionFailedEndpointLeft ==
    /\ FailedAfterDeploy
    /\ raised[Len(raised)] = [at |-> "extract", exc |-> "KeyError"]
    /\ endpoint = "deployed"

-----------------------------------------------------------------------------
(* C10 *)

TeardownCalls(k) ==
    {i \in 1..Len(calls) :
        calls[i].op \in {"delete_model", "delete_endpoint"} /\ calls[i].run = k}

\* C10: every execution of the teardown cell issues delete-model without
\* looking at the endpoint's state and, when that returns, delete-endpoint,
\* both without arguments; a second execution issues them against resources
\* already deleted, and a failure there stops the cell like any other.
TeardownIssuedUnconditionally ==
    /\ \A k \in 1..teardowns :
          /\ CountCalls("delete_model", k) = 1
          /\ \A i \in TeardownCalls(k) :
                /\ calls[i].arg = ""
                /\ (calls[i].op = "delete_endpoint" =>
                       (i > 1 /\ calls[i - 1].op = "delete_model"
                              /\ calls[i - 1].run = k))
                /\ (k >= 2 => calls[i].ep = "deleted")
    /\ ((pc = "done" \/ (pc = "delete_model" /\ teardowns >= 1)) =>
           \A k \in 1..teardowns :
               CountCalls("delete_model", k) = 1 /\ CountCalls("delete_endpoint", k) = 1)
    /\ (pc = "delete_endpoint" => CountCalls("delete_endpoint", teardowns) = 0)
    /\ ((teardowns >= 2 /\ UncaughtRaises # {}) =>
           (pc = "aborted" /\ raised[Len(raised)].at \in {"delete_model", "delete_endpoint"}))

SecondTeardownFailed ==
    /\ teardowns = 2
    /\ pc = "aborted"
    /\ error = "ClientError"
    /\ raised[Len(raised)].at = "delete_model"
    /\ endpoint = "deleted"
    /\ remoteModel = "deleted"
    /\ CountCalls("delete_model", 2) = 1
    /\ CountCalls("delete_endpoint", 2) = 0

-----------------------------------------------------------------------------
(* C11 *)

DeployCalls == {i \in 1..Len(calls) : calls[i].op = "deploy"}

DeployTimedOut == RaisedAt("deploy_wait", "DeployError")

\* C11: a run issues at most one deploy request, for one instance of the
\* configured type with the configured start-up time-out; the call blocks
\* while the endpoint is deploying and binds the handle only when the
\* endpoint is healthy; when it fails the error propagates, no handle is
\* bound, the deploy is not issued again and no predict, benchmark or
\* teardown call follows.
DeployOnceBlockingNoRetry ==
    /\ Cardinality(DeployCalls) <= 1
    /\ \A i \in DeployCalls :
          /\ calls[i].arg.initial_instance_count = 1
          /\ calls[i].arg.instance_type = "ml.p4d.24xlarge"
          /\ calls[i].arg.container_startup_health_check_timeout = 900
    /\ (endpoint = "deploying" =>
           /\ pc = "deploy_wait"
           /\ inflight = {"deploy"}
           /\ llm = None
           /\ calls[Len(calls)].op = "deploy")
    /\ (llm # None => (Cardinality(DeployCalls) = 1 /\ endpoint \in {"deployed", "deleted"}))
    /\ (endpoint = "failed" => DeployTimedOut)
    /\ (DeployTimedOut =>
           /\ pc = "aborted"
           /\ error = "DeployError"
           /\ endpoint = "failed"
           /\ llm = None
           /\ Cardinality(DeployCalls) = 1
           /\ calls[Len(calls)].op = "deploy"
           /\ \A op \in EndpointOps : ~Issued(op))

DeployTimedOutRunStopped ==
    /\ DeployTimedOut
    /\ pc = "aborted"
    /\ llm = None
    /\ endpoint = "failed"

-----------------------------------------------------------------------------
(* C12 *)

LookupFailures == {"KeyError", "IndexError"}

\* C12: a response without 'choices', with an empty choices list or whose
\* first choice has no message.content makes the extraction fail with an
\* uncaught lookup failure: no generated text is printed, no value stands in
\* for it and the run stops there.
MalformedResponseFailsLookup ==
    (ExtractActed /\ ~FirstChoiceHasContent) =>
        /\ pc = "aborted"
        /\ raised[Len(raised)].at = "extract"
        /\ raised[Len(raised)].exc \in LookupFailures
        /\ error = raised[Len(raised)].exc
        /\ ("choices" \notin DOMAIN chat => error = "KeyError")
        /\ (("choices" \in DOMAIN chat /\ Len(chat.choices) = 0) =>
               error = "IndexError")
        /\ stdout.predict = <<>>
        /\ ~Issued("benchmark")

EmptyChoicesFailedLookup ==
    /\ ExtractActed
    /\ "choices" \in DOMAIN chat
    /\ chat.choices = <<>>
    /\ error = "IndexError"
    /\ stdout.predict = <<>>

====
